---- MODULE Spec2Model ----
(***************************************************************************)
(* Model of module03 - SOLID/ex00: the Car facade, its four subsystems     *)
(* (Engine, Transmission, SteeringSystem, BrakingSystem) and the           *)
(* DefaultCarPolicy that gates start / stop / accelerate / reverse.        *)
(*                                                                         *)
(* The subsystems and the policy are objects the caller constructs and     *)
(* hands to Car by reference (main.cpp:8-13), so their public methods are  *)
(* operations of the program next to the Car operations.  Specification    *)
(* Spec allows all of them; it is the one under which "every combination   *)
(* of subsystem states" is reachable.                                      *)
(***************************************************************************)
EXTENDS Integers, Sequences, FiniteSets

VARIABLES
    is_active,      \* Engine::_is_active
    current_gear,   \* Transmission::_current_gear
    current_angle,  \* SteeringSystem::_current_angle
    current_force,  \* BrakingSystem::_current_force
    op,             \* the method called last ("" after construction)
    arg,            \* its argument: <<>> if it takes none, <<n>> otherwise
    ret,            \* its return value: <<>> for void, <<b>> for bool
    log_out,        \* the lines the last call sent to the logger, in order
    scenario        \* position in the rest scenario, Off once left

vars == <<is_active, current_gear, current_angle, current_force,
          op, arg, ret, log_out, scenario>>

subsystems == <<is_active, current_gear, current_angle, current_force>>

----------------------------------------------------------------------------
(* Program constants *)

MAX_TURN_ANGLE == 45

MAX_BRAKE_FORCE == 100

P == "P"

D == "D"

R == "R"

Gear == {P, D, R}

(* Arguments used by main.cpp *)
MainAngle == 30

MainForce == 50

(* Bound: how far the sampled arguments reach on each side of a limit *)
Slack == 1

Near(limit) == (limit - Slack)..(limit + Slack)

ForceArgs == Near(0) \cup Near(MAX_BRAKE_FORCE) \cup {MainForce}

AngleArgs == Near(-MAX_TURN_ANGLE) \cup Near(MAX_TURN_ANGLE) \cup {0, MainAngle}

SpeedArgs == {0, 60}

Void == <<>>

NoArg == <<>>

----------------------------------------------------------------------------
(* Log lines: <<class_name, message>> or <<class_name, message, number>> *)

EngineName == "Engine"

(* Transmission derives from LoggerMixin<Engine>, so its lines carry the
   Engine's class name and colour. *)
TransmissionLogName == EngineName

SteeringName == "SteeringSystem"

BrakingName == "BrakingSystem"

CarName == "Car"

----------------------------------------------------------------------------
(* Engine *)

Engine_is_active(e) == e

Engine_start_do(e) ==
    [active |-> TRUE, log |-> << <<EngineName, "Started.">> >>]

(* Mutant: the flag is not cleared *)
Engine_stop_do_keeps_flag(e) ==
    [active |-> e, log |-> << <<EngineName, "Stopped.">> >>]

Engine_stop_do(e) ==
    [active |-> FALSE, log |-> << <<EngineName, "Stopped.">> >>]

Engine_accelerate_do(e, speed) ==
    IF ~e
    THEN [active |-> e,
          log |-> << <<EngineName, "Cannot accelerate. Engine is not running.">> >>]
    ELSE [active |-> e,
          log |-> << <<EngineName, "Accelerating to km/h", speed>> >>]

----------------------------------------------------------------------------
(* Transmission *)

is_in_park(g) == g = P

get_current_gear(g) == g

(* Mutant: the current gear is not compared first *)
try_set_unconditional(cur, gear) ==
    [gear |-> gear, ret |-> TRUE,
     log |-> << <<TransmissionLogName, "Gear ->", gear>> >>]

try_set(cur, gear) ==
    IF gear = cur
    THEN [gear |-> cur, ret |-> FALSE, log |-> <<>>]
    ELSE [gear |-> gear, ret |-> TRUE,
          log |-> << <<TransmissionLogName, "Gear ->", gear>> >>]

to_park(cur) == try_set(cur, P)

to_drive(cur) == try_set(cur, D)

to_reverse(cur) == try_set(cur, R)

----------------------------------------------------------------------------
(* SteeringSystem *)

(* Mutant: the lower limit is not checked *)
turn_wheel_no_lower(cur, angle) ==
    IF angle > MAX_TURN_ANGLE
    THEN [angle |-> cur, ret |-> FALSE,
          log |-> << <<SteeringName, "Invalid angle.">> >>]
    ELSE [angle |-> angle, ret |-> TRUE,
          log |-> << <<SteeringName, "Wheels turned to", angle>> >>]

turn_wheel(cur, angle) ==
    IF angle < -MAX_TURN_ANGLE \/ angle > MAX_TURN_ANGLE
    THEN [angle |-> cur, ret |-> FALSE,
          log |-> << <<SteeringName, "Invalid angle.">> >>]
    ELSE [angle |-> angle, ret |-> TRUE,
          log |-> << <<SteeringName, "Wheels turned to", angle>> >>]

straighten_wheels(cur) ==
    [angle |-> 0,
     log |-> << <<SteeringName, "Wheels straightened to the straight-ahead position.">> >>]

----------------------------------------------------------------------------
(* BrakingSystem *)

(* Mutant: the lower limit is not checked *)
apply_force_on_brakes_no_lower(cur, force) ==
    IF force > MAX_BRAKE_FORCE
    THEN [force |-> cur, ret |-> FALSE,
          log |-> << <<BrakingName, "Invalid force.">> >>]
    ELSE [force |-> force, ret |-> TRUE,
          log |-> << <<BrakingName, "Brakes applied with force:", force>> >>]

(* Mutant: the upper limit is not checked *)
apply_force_on_brakes_no_upper(cur, force) ==
    IF force < 0
    THEN [force |-> cur, ret |-> FALSE,
          log |-> << <<BrakingName, "Invalid force.">> >>]
    ELSE [force |-> force, ret |-> TRUE,
          log |-> << <<BrakingName, "Brakes applied with force:", force>> >>]

apply_force_on_brakes(cur, force) ==
    IF force < 0 \/ force > MAX_BRAKE_FORCE
    THEN [force |-> cur, ret |-> FALSE,
          log |-> << <<BrakingName, "Invalid force.">> >>]
    ELSE [force |-> force, ret |-> TRUE,
          log |-> << <<BrakingName, "Brakes applied with force:", force>> >>]

(* Mutant: the brakes are only tightened, never set *)
apply_emergency_brakes_if_released(cur) ==
    [force |-> IF cur = 0 THEN MAX_BRAKE_FORCE ELSE cur,
     log |-> << <<BrakingName, "Emergency brakes applied with maximum force:",
                  MAX_BRAKE_FORCE>> >>]

apply_emergency_brakes(cur) ==
    [force |-> MAX_BRAKE_FORCE,
     log |-> << <<BrakingName, "Emergency brakes applied with maximum force:",
                  MAX_BRAKE_FORCE>> >>]

get_current_force(f) == f

is_braking(f) == f > 0

----------------------------------------------------------------------------
(* DefaultCarPolicy *)

(* Mutant: the brakes are not looked at *)
can_start_ignoring_brakes(e, g, f) ==
    IF Engine_is_active(e) THEN FALSE
    ELSE IF ~is_in_park(g) THEN FALSE
    ELSE TRUE

can_start(e, g, f) ==
    IF Engine_is_active(e) THEN FALSE
    ELSE IF ~is_in_park(g) THEN FALSE
    ELSE IF is_braking(f) THEN FALSE
    ELSE TRUE

(* Mutant: the gear is not looked at *)
can_stop_ignoring_gear(e, g) ==
    IF ~Engine_is_active(e) THEN FALSE
    ELSE TRUE

can_stop(e, g) ==
    IF ~Engine_is_active(e) THEN FALSE
    ELSE IF is_in_park(g) THEN FALSE
    ELSE TRUE

(* Mutant: the gear test is inverted, as its comment words it *)
can_accelerate_in_park(e, g, f) ==
    IF ~Engine_is_active(e) THEN FALSE
    ELSE IF ~is_in_park(g) THEN FALSE
    ELSE IF is_braking(f) THEN FALSE
    ELSE TRUE

can_accelerate(e, g, f) ==
    IF ~Engine_is_active(e) THEN FALSE
    ELSE IF is_in_park(g) THEN FALSE
    ELSE IF is_braking(f) THEN FALSE
    ELSE TRUE

(* Mutant: the gear test is inverted *)
can_reverse_gear_inverted(g, f) ==
    IF get_current_gear(g) = R THEN FALSE
    ELSE IF ~is_braking(f) THEN FALSE
    ELSE TRUE

(* Mutant: the brakes are not looked at *)
can_reverse_ignoring_brakes(g, f) ==
    IF get_current_gear(g) # R THEN FALSE
    ELSE TRUE

can_reverse(g, f) ==
    IF get_current_gear(g) # R THEN FALSE
    ELSE IF ~is_braking(f) THEN FALSE
    ELSE TRUE

----------------------------------------------------------------------------
(* State after construction (main.cpp:8-13) *)

Init ==
    /\ is_active = FALSE
    /\ current_gear = P
    /\ current_angle = 0
    /\ current_force = 0
    /\ op = ""
    /\ arg = NoArg
    /\ ret = Void
    /\ log_out = <<>>
    /\ scenario = 0

(* The call just made: its name, argument, return value and log lines.
   The rest scenario is start(); accelerate(60); shift to Drive;
   accelerate(60) on a freshly constructed car, with nothing in between. *)
ScenarioCalls ==
    << <<"Car::start", NoArg>>, <<"Car::accelerate", <<60>> >>,
       <<"Car::shift_gears_down", NoArg>>, <<"Car::accelerate", <<60>> >> >>

Off == Len(ScenarioCalls) + 1

Called(name, a, r, lg) ==
    /\ op' = name
    /\ arg' = a
    /\ ret' = r
    /\ log_out' = lg
    /\ scenario' = IF /\ scenario < Len(ScenarioCalls)
                      /\ ScenarioCalls[scenario + 1] = <<name, a>>
                   THEN scenario + 1
                   ELSE Off

----------------------------------------------------------------------------
(* Direct calls on the subsystems *)

Engine_start ==
    LET r == Engine_start_do(is_active) IN
    /\ is_active' = r.active
    /\ UNCHANGED <<current_gear, current_angle, current_force>>
    /\ Called("Engine::start", NoArg, Void, r.log)

Engine_stop ==
    LET r == Engine_stop_do(is_active) IN
    /\ is_active' = r.active
    /\ UNCHANGED <<current_gear, current_angle, current_force>>
    /\ Called("Engine::stop", NoArg, Void, r.log)

Engine_accelerate ==
    \E speed \in SpeedArgs :
        LET r == Engine_accelerate_do(is_active, speed) IN
        /\ is_active' = r.active
        /\ UNCHANGED <<current_gear, current_angle, current_force>>
        /\ Called("Engine::accelerate", <<speed>>, Void, r.log)

Transmission_to_park ==
    LET r == to_park(current_gear) IN
    /\ current_gear' = r.gear
    /\ UNCHANGED <<is_active, current_angle, current_force>>
    /\ Called("Transmission::to_park", NoArg, <<r.ret>>, r.log)

Transmission_to_drive ==
    LET r == to_drive(current_gear) IN
    /\ current_gear' = r.gear
    /\ UNCHANGED <<is_active, current_angle, current_force>>
    /\ Called("Transmission::to_drive", NoArg, <<r.ret>>, r.log)

Transmission_to_reverse ==
    LET r == to_reverse(current_gear) IN
    /\ current_gear' = r.gear
    /\ UNCHANGED <<is_active, current_angle, current_force>>
    /\ Called("Transmission::to_reverse", NoArg, <<r.ret>>, r.log)

SteeringSystem_turn_wheel ==
    \E angle \in AngleArgs :
        LET r == turn_wheel(current_angle, angle) IN
        /\ current_angle' = r.angle
        /\ UNCHANGED <<is_active, current_gear, current_force>>
        /\ Called("SteeringSystem::turn_wheel", <<angle>>, <<r.ret>>, r.log)

SteeringSystem_straighten_wheels ==
    LET r == straighten_wheels(current_angle) IN
    /\ current_angle' = r.angle
    /\ UNCHANGED <<is_active, current_gear, current_force>>
    /\ Called("SteeringSystem::straighten_wheels", NoArg, Void, r.log)

BrakingSystem_apply_force_on_brakes ==
    \E force \in ForceArgs :
        LET r == apply_force_on_brakes(current_force, force) IN
        /\ current_force' = r.force
        /\ UNCHANGED <<is_active, current_gear, current_angle>>
        /\ Called("BrakingSystem::apply_force_on_brakes", <<force>>, <<r.ret>>, r.log)

BrakingSystem_apply_emergency_brakes ==
    LET r == apply_emergency_brakes(current_force) IN
    /\ current_force' = r.force
    /\ UNCHANGED <<is_active, current_gear, current_angle>>
    /\ Called("BrakingSystem::apply_emergency_brakes", NoArg, Void, r.log)

----------------------------------------------------------------------------
(* Policy queries: const methods over const references, no logger *)

Policy_can_start ==
    /\ UNCHANGED subsystems
    /\ Called("DefaultCarPolicy::can_start", NoArg,
              <<can_start(is_active, current_gear, current_force)>>, <<>>)

(* Mutant: the policy reports its refusals to the logger *)
Policy_can_stop_logging ==
    /\ UNCHANGED subsystems
    /\ Called("DefaultCarPolicy::can_stop", NoArg,
              <<can_stop(is_active, current_gear)>>,
              IF can_stop(is_active, current_gear)
              THEN <<>>
              ELSE << <<CarName, "Stop rejected by policy.">> >>)

Policy_can_stop ==
    /\ UNCHANGED subsystems
    /\ Called("DefaultCarPolicy::can_stop", NoArg,
              <<can_stop(is_active, current_gear)>>, <<>>)

Policy_can_accelerate ==
    /\ UNCHANGED subsystems
    /\ Called("DefaultCarPolicy::can_accelerate", NoArg,
              <<can_accelerate(is_active, current_gear, current_force)>>, <<>>)

Policy_can_reverse ==
    /\ UNCHANGED subsystems
    /\ Called("DefaultCarPolicy::can_reverse", NoArg,
              <<can_reverse(current_gear, current_force)>>, <<>>)

----------------------------------------------------------------------------
(* Car: the facade *)

(* Mutant: the policy is asked before the brakes are applied *)
Car_start_policy_first ==
    IF ~can_start(is_active, current_gear, current_force)
    THEN /\ UNCHANGED subsystems
         /\ Called("Car::start", NoArg, Void,
                   << <<CarName, "Start rejected by policy.">> >>)
    ELSE LET b == apply_emergency_brakes(current_force)
             e == Engine_start_do(is_active) IN
         /\ current_force' = b.force
         /\ is_active' = e.active
         /\ UNCHANGED <<current_gear, current_angle>>
         /\ Called("Car::start", NoArg, Void,
                   b.log \o e.log \o
                   << <<CarName, "Started, braking system holding emergency brakes.">> >>)

(* Mutant: the engine is started before the policy is asked *)
Car_start_engine_first ==
    LET b == apply_emergency_brakes(current_force)
        e == Engine_start_do(is_active) IN
    /\ current_force' = b.force
    /\ is_active' = e.active
    /\ UNCHANGED <<current_gear, current_angle>>
    /\ Called("Car::start", NoArg, Void,
              b.log \o e.log \o
              IF ~can_start(e.active, current_gear, b.force)
              THEN << <<CarName, "Start rejected by policy.">> >>
              ELSE << <<CarName, "Started, braking system holding emergency brakes.">> >>)

Car_start ==
    LET b == apply_emergency_brakes(current_force) IN
    IF ~can_start(is_active, current_gear, b.force)
    THEN /\ current_force' = b.force
         /\ UNCHANGED <<is_active, current_gear, current_angle>>
         /\ Called("Car::start", NoArg, Void,
                   b.log \o << <<CarName, "Start rejected by policy.">> >>)
    ELSE LET e == Engine_start_do(is_active) IN
         /\ current_force' = b.force
         /\ is_active' = e.active
         /\ UNCHANGED <<current_gear, current_angle>>
         /\ Called("Car::start", NoArg, Void,
                   b.log \o e.log \o
                   << <<CarName, "Started, braking system holding emergency brakes.">> >>)

(* Mutant: the brakes are applied before the policy is asked, as in start() *)
Car_stop_brakes_first ==
    LET b == apply_emergency_brakes(current_force) IN
    IF ~can_stop(is_active, current_gear)
    THEN /\ current_force' = b.force
         /\ UNCHANGED <<is_active, current_gear, current_angle>>
         /\ Called("Car::stop", NoArg, Void,
                   b.log \o << <<CarName, "Stop rejected by policy.">> >>)
    ELSE LET e == Engine_stop_do(is_active) IN
         /\ current_force' = b.force
         /\ is_active' = e.active
         /\ UNCHANGED <<current_gear, current_angle>>
         /\ Called("Car::stop", NoArg, Void,
                   b.log \o e.log \o
                   << <<CarName, "Stopped and transmission set to Park.">> >>)

Car_stop ==
    IF ~can_stop(is_active, current_gear)
    THEN /\ UNCHANGED subsystems
         /\ Called("Car::stop", NoArg, Void,
                   << <<CarName, "Stop rejected by policy.">> >>)
    ELSE LET b == apply_emergency_brakes(current_force)
             e == Engine_stop_do(is_active) IN
         /\ current_force' = b.force
         /\ is_active' = e.active
         /\ UNCHANGED <<current_gear, current_angle>>
         /\ Called("Car::stop", NoArg, Void,
                   b.log \o e.log \o
                   << <<CarName, "Stopped and transmission set to Park.">> >>)

Car_accelerate ==
    \E speed \in SpeedArgs :
        IF ~can_accelerate(is_active, current_gear, current_force)
        THEN /\ UNCHANGED subsystems
             /\ Called("Car::accelerate", <<speed>>, Void,
                       << <<CarName, "Acceleration rejected by policy.">> >>)
        ELSE LET e == Engine_accelerate_do(is_active, speed) IN
             /\ is_active' = e.active
             /\ UNCHANGED <<current_gear, current_angle, current_force>>
             /\ Called("Car::accelerate", <<speed>>, Void, e.log)

Car_shift_gears_up ==
    LET r == to_park(current_gear) IN
    /\ current_gear' = r.gear
    /\ UNCHANGED <<is_active, current_angle, current_force>>
    /\ Called("Car::shift_gears_up", NoArg, Void, r.log)

(* Mutant: shifting to Drive is refused while the engine is off *)
Car_shift_gears_down_gated ==
    IF ~Engine_is_active(is_active)
    THEN /\ UNCHANGED subsystems
         /\ Called("Car::shift_gears_down", NoArg, Void, <<>>)
    ELSE LET r == to_drive(current_gear) IN
         /\ current_gear' = r.gear
         /\ UNCHANGED <<is_active, current_angle, current_force>>
         /\ Called("Car::shift_gears_down", NoArg, Void, r.log)

Car_shift_gears_down ==
    LET r == to_drive(current_gear) IN
    /\ current_gear' = r.gear
    /\ UNCHANGED <<is_active, current_angle, current_force>>
    /\ Called("Car::shift_gears_down", NoArg, Void, r.log)

(* Mutant: the emergency brakes are not applied *)
Car_reverse_without_brakes ==
    IF ~can_reverse(current_gear, current_force)
    THEN /\ UNCHANGED subsystems
         /\ Called("Car::reverse", NoArg, Void,
                   << <<CarName, "Reverse rejected by policy.">> >>)
    ELSE LET t == to_reverse(current_gear) IN
         /\ current_gear' = t.gear
         /\ UNCHANGED <<is_active, current_angle, current_force>>
         /\ Called("Car::reverse", NoArg, Void, t.log)

Car_reverse ==
    IF ~can_reverse(current_gear, current_force)
    THEN /\ UNCHANGED subsystems
         /\ Called("Car::reverse", NoArg, Void,
                   << <<CarName, "Reverse rejected by policy.">> >>)
    ELSE LET b == apply_emergency_brakes(current_force)
             t == to_reverse(current_gear) IN
         /\ current_force' = b.force
         /\ current_gear' = t.gear
         /\ UNCHANGED <<is_active, current_angle>>
         /\ Called("Car::reverse", NoArg, Void, b.log \o t.log)

Car_turn_wheel ==
    \E angle \in AngleArgs :
        LET r == turn_wheel(current_angle, angle) IN
        /\ current_angle' = r.angle
        /\ UNCHANGED <<is_active, current_gear, current_force>>
        /\ Called("Car::turn_wheel", <<angle>>, Void, r.log)

Car_straighten_wheels ==
    LET r == straighten_wheels(current_angle) IN
    /\ current_angle' = r.angle
    /\ UNCHANGED <<is_active, current_gear, current_force>>
    /\ Called("Car::straighten_wheels", NoArg, Void, r.log)

Car_apply_force_on_brakes ==
    \E force \in ForceArgs :
        LET r == apply_force_on_brakes(current_force, force) IN
        /\ current_force' = r.force
        /\ UNCHANGED <<is_active, current_gear, current_angle>>
        /\ Called("Car::apply_force_on_brakes", <<force>>, Void, r.log)

Car_apply_emergency_brakes ==
    LET r == apply_emergency_brakes(current_force) IN
    /\ current_force' = r.force
    /\ UNCHANGED <<is_active, current_gear, current_angle>>
    /\ Called("Car::apply_emergency_brakes", NoArg, Void, r.log)

----------------------------------------------------------------------------
(* Specifications *)

CarNext ==
    \/ Car_start
    \/ Car_stop
    \/ Car_accelerate
    \/ Car_shift_gears_up
    \/ Car_shift_gears_down
    \/ Car_reverse
    \/ Car_turn_wheel
    \/ Car_straighten_wheels
    \/ Car_apply_force_on_brakes
    \/ Car_apply_emergency_brakes

SubsystemNext ==
    \/ Engine_start
    \/ Engine_stop
    \/ Engine_accelerate
    \/ Transmission_to_park
    \/ Transmission_to_drive
    \/ Transmission_to_reverse
    \/ SteeringSystem_turn_wheel
    \/ SteeringSystem_straighten_wheels
    \/ BrakingSystem_apply_force_on_brakes
    \/ BrakingSystem_apply_emergency_brakes

PolicyNext ==
    \/ Policy_can_start
    \/ Policy_can_stop
    \/ Policy_can_accelerate
    \/ Policy_can_reverse

Next == CarNext \/ SubsystemNext \/ PolicyNext

Spec == Init /\ [][Next]_vars

(* Runs in which the caller only uses the Car, as main.cpp does *)
CarSpec == Init /\ [][CarNext]_vars

TypeOK ==
    /\ is_active \in BOOLEAN
    /\ current_gear \in Gear
    /\ current_angle \in Int
    /\ current_force \in Int
    /\ scenario \in 0..Off

----------------------------------------------------------------------------
(* What the log of the last call shows *)

Logged(line) == \E i \in 1..Len(log_out) : log_out[i] = line

StartRejected == Logged(<<CarName, "Start rejected by policy.">>)

StopRejected == Logged(<<CarName, "Stop rejected by policy.">>)

AccelerationRejected == Logged(<<CarName, "Acceleration rejected by policy.">>)

ReverseRejected == Logged(<<CarName, "Reverse rejected by policy.">>)

OutOfForceRange(a) == a[1] < 0 \/ a[1] > MAX_BRAKE_FORCE

----------------------------------------------------------------------------
(* C1: on a freshly constructed car (engine inactive, gear Park, brake
   force 0) a single Car::start() activates the engine. *)
C1_StartActivatesEngine ==
    scenario = 1 => is_active

(* C2: after that start(), accelerate(60) in Park is rejected and changes
   no subsystem state; after shift_gears_down() (to Drive), accelerate(60)
   is accepted: can_accelerate holds and the active engine accelerates. *)
C2_ScenarioAccelerate ==
    [][ /\ (scenario = 1 /\ scenario' = 2) =>
              (AccelerationRejected' /\ UNCHANGED subsystems)
        /\ (scenario = 3 /\ scenario' = 4) =>
              /\ can_accelerate(is_active, current_gear, current_force)
              /\ is_active'
              /\ log_out' = << <<EngineName, "Accelerating to km/h", 60>> >>
      ]_vars

(* C3 as stated: a Car::start() the policy rejects changes none of engine
   activity, gear, steering angle and brake force. *)
C3_RejectedStartIsNoOp ==
    [][ (op' = "Car::start" /\ StartRejected') => UNCHANGED subsystems ]_vars

(* C3 amended: a Car::start() the policy rejects leaves engine activity,
   gear and steering angle as they were and leaves the brake force at
   MAX_BRAKE_FORCE, whatever it was before. *)
C3_RejectedStartKeepsAllButBrakes ==
    [][ (op' = "Car::start" /\ StartRejected') =>
            /\ UNCHANGED <<is_active, current_gear, current_angle>>
            /\ current_force' = MAX_BRAKE_FORCE
      ]_vars

C3_Witness ==
    /\ op = "Car::start"
    /\ StartRejected
    /\ is_active
    /\ current_gear = D
    /\ current_angle = MainAngle

(* C4: can_start answers true exactly when the engine is inactive, the
   gear is Park and the brake force is 0 - in the state it is asked in,
   and for every brake force from 0 to MAX_BRAKE_FORCE. *)
C4_CanStartIff ==
    /\ op = "DefaultCarPolicy::can_start" =>
          (ret = <<TRUE>> <=>
              (~is_active /\ current_gear = P /\ current_force = 0))
    /\ \A e \in BOOLEAN, g \in Gear, f \in 0..MAX_BRAKE_FORCE :
          can_start(e, g, f) <=> (~e /\ g = P /\ f = 0)

C4_Witness ==
    /\ op = "DefaultCarPolicy::can_start"
    /\ ret = <<TRUE>>
    /\ current_angle # 0

(* C5: can_accelerate answers true exactly when the engine is active, the
   gear is not Park and the brake force is 0. *)
C5_CanAccelerateIff ==
    /\ op = "DefaultCarPolicy::can_accelerate" =>
          (ret = <<TRUE>> <=>
              (is_active /\ current_gear # P /\ current_force = 0))
    /\ \A e \in BOOLEAN, g \in Gear, f \in 0..MAX_BRAKE_FORCE :
          can_accelerate(e, g, f) <=> (e /\ g # P /\ f = 0)

C5_Witness ==
    /\ op = "DefaultCarPolicy::can_accelerate"
    /\ ret = <<TRUE>>
    /\ current_gear = R

(* C6: can_stop answers true exactly when the engine is active and the
   gear is not Park. *)
C6_CanStopIff ==
    /\ op = "DefaultCarPolicy::can_stop" =>
          (ret = <<TRUE>> <=> (is_active /\ current_gear # P))
    /\ \A e \in BOOLEAN, g \in Gear :
          can_stop(e, g) <=> (e /\ g # P)

C6_Witness ==
    /\ op = "DefaultCarPolicy::can_stop"
    /\ ret = <<TRUE>>
    /\ current_force = MainForce

(* C7: can_reverse answers true exactly when the gear is Reverse and the
   brake force is greater than 0. *)
C7_CanReverseIff ==
    /\ op = "DefaultCarPolicy::can_reverse" =>
          (ret = <<TRUE>> <=> (current_gear = R /\ current_force > 0))
    /\ \A g \in Gear, f \in 0..MAX_BRAKE_FORCE :
          can_reverse(g, f) <=> (g = R /\ f > 0)

C7_Witness ==
    /\ op = "DefaultCarPolicy::can_reverse"
    /\ ret = <<TRUE>>
    /\ current_force = 1

(* C8: a Car::reverse() that can_reverse permits ends with brake force
   MAX_BRAKE_FORCE and gear Reverse, engine activity and steering angle
   unchanged. *)
C8_PermittedReverse ==
    [][ (op' = "Car::reverse" /\ can_reverse(current_gear, current_force)) =>
            /\ current_force' = MAX_BRAKE_FORCE
            /\ current_gear' = R
            /\ UNCHANGED <<is_active, current_angle>>
      ]_vars

C8_Witness ==
    /\ op = "Car::reverse"
    /\ ~ReverseRejected
    /\ current_gear = R
    /\ current_force = MAX_BRAKE_FORCE
    /\ is_active
    /\ current_angle = -MAX_TURN_ANGLE

(* C9: a Car::stop() that can_stop permits ends with the engine inactive
   and brake force MAX_BRAKE_FORCE, whatever the brake force and steering
   angle were. *)
C9_PermittedStop ==
    [][ (op' = "Car::stop" /\ can_stop(is_active, current_gear)) =>
            /\ ~is_active'
            /\ current_force' = MAX_BRAKE_FORCE
      ]_vars

C9_Witness ==
    /\ op = "Car::stop"
    /\ ~StopRejected
    /\ ~is_active
    /\ current_force = MAX_BRAKE_FORCE
    /\ current_angle = MAX_TURN_ANGLE

(* C10: apply_force_on_brakes(force) with force < 0 or force >
   MAX_BRAKE_FORCE leaves the brake force as it was and returns false, on
   the BrakingSystem and through Car::apply_force_on_brakes. *)
C10_OutOfRangeForceRejected ==
    [][ /\ (op' = "BrakingSystem::apply_force_on_brakes" /\ OutOfForceRange(arg')) =>
              (ret' = <<FALSE>> /\ current_force' = current_force)
        /\ (op' = "Car::apply_force_on_brakes" /\ OutOfForceRange(arg')) =>
              (current_force' = current_force
                 /\ log_out' = << <<BrakingName, "Invalid force.">> >>)
      ]_vars

C10_Witness ==
    /\ op = "BrakingSystem::apply_force_on_brakes"
    /\ arg = <<MAX_BRAKE_FORCE + 1>>
    /\ ret = <<FALSE>>
    /\ current_force = MainForce


OutOfAngleRange(a) == a[1] < -MAX_TURN_ANGLE \/ a[1] > MAX_TURN_ANGLE

EmergencyLine ==
    <<BrakingName, "Emergency brakes applied with maximum force:", MAX_BRAKE_FORCE>>

(* C11: turn_wheel(angle) with angle < -MAX_TURN_ANGLE or angle >
   MAX_TURN_ANGLE leaves the steering angle as it was and returns false, on
   the SteeringSystem and through Car::turn_wheel. *)
C11_OutOfRangeAngleRejected ==
    [][ /\ (op' = "SteeringSystem::turn_wheel" /\ OutOfAngleRange(arg')) =>
              (ret' = <<FALSE>> /\ current_angle' = current_angle)
        /\ (op' = "Car::turn_wheel" /\ OutOfAngleRange(arg')) =>
              (current_angle' = current_angle
                 /\ log_out' = << <<SteeringName, "Invalid angle.">> >>)
      ]_vars

C11_Witness ==
    /\ op = "Car::turn_wheel"
    /\ arg = <<-MAX_TURN_ANGLE - 1>>
    /\ log_out = << <<SteeringName, "Invalid angle.">> >>
    /\ current_angle = MainAngle

(* C12: in every reachable state the brake force is in 0..MAX_BRAKE_FORCE,
   the steering angle is in -MAX_TURN_ANGLE..MAX_TURN_ANGLE and the gear is
   one of P, D, R. *)
C12_RangesHold ==
    /\ current_force \in 0..MAX_BRAKE_FORCE
    /\ current_angle \in (-MAX_TURN_ANGLE)..MAX_TURN_ANGLE
    /\ current_gear \in Gear

C12_Witness ==
    /\ op = "Car::apply_force_on_brakes"
    /\ arg = <<-1>>
    /\ current_force = MAX_BRAKE_FORCE
    /\ current_angle = MAX_TURN_ANGLE
    /\ current_gear = D

(* C13: apply_emergency_brakes() leaves the brake force at exactly
   MAX_BRAKE_FORCE in every engine and gear state, whatever the force was,
   and is never rejected: its only log line is the emergency line. *)
C13_EmergencyBrakesSetMax ==
    [][ op' \in {"BrakingSystem::apply_emergency_brakes",
                 "Car::apply_emergency_brakes"} =>
            /\ current_force' = MAX_BRAKE_FORCE
            /\ log_out' = <<EmergencyLine>>
            /\ UNCHANGED <<is_active, current_gear, current_angle>>
      ]_vars

C13_Witness ==
    /\ op = "Car::apply_emergency_brakes"
    /\ current_force = MAX_BRAKE_FORCE
    /\ is_active
    /\ current_gear = R


PolicyQueries ==
    {"DefaultCarPolicy::can_start", "DefaultCarPolicy::can_stop",
     "DefaultCarPolicy::can_accelerate", "DefaultCarPolicy::can_reverse"}

(* The gear a Transmission call asks for *)
Requested(name) ==
    CASE name = "Transmission::to_park" -> P
      [] name = "Transmission::to_drive" -> D
      [] name = "Transmission::to_reverse" -> R

(* C14: to_park / to_drive / to_reverse asking for the current gear changes
   nothing, returns false and logs nothing; asking for another gear returns
   true and makes that gear the current one. *)
C14_SetGear ==
    [][ op' \in {"Transmission::to_park", "Transmission::to_drive",
                 "Transmission::to_reverse"} =>
            IF current_gear = Requested(op')
            THEN ret' = <<FALSE>> /\ log_out' = <<>> /\ UNCHANGED subsystems
            ELSE ret' = <<TRUE>> /\ current_gear' = Requested(op')
      ]_vars

C14_Witness ==
    /\ op = "Transmission::to_reverse"
    /\ ret = <<FALSE>>
    /\ log_out = <<>>
    /\ current_gear = R

(* C15: a policy query changes none of engine activity, gear, brake force
   and steering angle and logs nothing, and the same query asked again in
   the unchanged state gives the same answer. *)
C15_PolicyIsPure ==
    [][ op' \in PolicyQueries =>
            /\ UNCHANGED subsystems
            /\ log_out' = <<>>
            /\ op = op' => ret' = ret
      ]_vars

C15_Witness ==
    /\ op = "DefaultCarPolicy::can_stop"
    /\ ret = <<FALSE>>
    /\ log_out = <<>>
    /\ is_active
    /\ current_gear = P

(* C16: a Car::stop(), Car::accelerate(speed) or Car::reverse() that the
   policy rejects changes none of engine activity, gear, brake force and
   steering angle. *)
C16_RejectedIsNoOp ==
    [][ \/ (op' = "Car::stop" /\ StopRejected')
        \/ (op' = "Car::accelerate" /\ AccelerationRejected')
        \/ (op' = "Car::reverse" /\ ReverseRejected')
        => UNCHANGED subsystems
      ]_vars

C16_Witness ==
    /\ op = "Car::stop"
    /\ StopRejected
    /\ current_force = MainForce
    /\ current_gear = D
    /\ ~is_active

(* C17: the six Car operations the policy does not gate always act: their
   effect on their own subsystem is decided by that subsystem's state and
   the argument alone, no rejection is logged, and the other subsystems -
   engine activity among them - are left as they were. *)
C17_UngatedDelegation ==
    [][ /\ op' = "Car::shift_gears_up" =>
              (current_gear' = P
                 /\ UNCHANGED <<is_active, current_angle, current_force>>)
        /\ op' = "Car::shift_gears_down" =>
              (current_gear' = D
                 /\ UNCHANGED <<is_active, current_angle, current_force>>)
        /\ op' = "Car::turn_wheel" =>
              (current_angle' = (IF OutOfAngleRange(arg') THEN current_angle
                                                           ELSE arg'[1])
                 /\ UNCHANGED <<is_active, current_gear, current_force>>)
        /\ op' = "Car::straighten_wheels" =>
              (current_angle' = 0
                 /\ UNCHANGED <<is_active, current_gear, current_force>>)
        /\ op' = "Car::apply_force_on_brakes" =>
              (current_force' = (IF OutOfForceRange(arg') THEN current_force
                                                           ELSE arg'[1])
                 /\ UNCHANGED <<is_active, current_gear, current_angle>>)
        /\ op' = "Car::apply_emergency_brakes" =>
              (current_force' = MAX_BRAKE_FORCE
                 /\ UNCHANGED <<is_active, current_gear, current_angle>>)
      ]_vars

C17_Witness ==
    /\ op = "Car::shift_gears_down"
    /\ current_gear = D
    /\ log_out = << <<TransmissionLogName, "Gear ->", D>> >>
    /\ ~is_active
    /\ current_force = MAX_BRAKE_FORCE


(* C18: after a Car::stop() the policy accepted, the transmission is in
   Park. *)
C18_StopSetsPark ==
    (op = "Car::stop" /\ ~StopRejected) => current_gear = P

(* C19: while only the Car is called, the engine is never active, and every
   Car::start(), Car::stop() and Car::accelerate() is rejected by the
   policy. *)
C19_FacadeNeverStarts ==
    /\ ~is_active
    /\ op = "Car::start" => StartRejected
    /\ op = "Car::stop" => StopRejected
    /\ op = "Car::accelerate" => AccelerationRejected

C19_Witness ==
    /\ op = "Car::start"
    /\ StartRejected
    /\ ~is_active
    /\ current_gear = P
    /\ current_force = MAX_BRAKE_FORCE
    /\ scenario = Off

(* C20: while only the Car is called, the gear is Park or Drive and never
   Reverse: every Car::reverse() is rejected. *)
C20_FacadeNeverReverses ==
    /\ current_gear \in {P, D}
    /\ op = "Car::reverse" => ReverseRejected

C20_Witness ==
    /\ op = "Car::reverse"
    /\ ReverseRejected
    /\ current_gear = D
    /\ current_force = MAX_BRAKE_FORCE

====
